---------------------------- MODULE Spec2Model ----------------------------
(***************************************************************************)
(* Crop prediction notebook (src/model.ipynb): preprocess_data,            *)
(* train_and_evaluate_model, get_valid_input,                              *)
(* predict_and_send_to_firebase and main, as a state machine.              *)
(*                                                                         *)
(* Numbers.  Dataset cells are integers.  float(input()) rounds the        *)
(* decimal typed to the nearest float64; a float64 is held exactly as      *)
(* [kind, neg, num, t], standing for +-num / 2^t, or nan / inf, with       *)
(* num a natural number of any size (base-10000 digits, the least          *)
(* significant first).  Scaler arithmetic on these values is exact: a      *)
(* scaled cell z = (x - mean_) / scale_ is in general irrational (scale_   *)
(* is a square root), so it is held as its sign and its square:            *)
(* [sign, num, den] stands for z = sign * sqrt(num / den).                 *)
(***************************************************************************)
EXTENDS Integers, Sequences, FiniteSets, TLC

VARIABLES
  pc,             \* position in main / get_valid_input
  data,           \* rows of the csv file: [x |-> <<4 cells>>, label |-> name]
  le,             \* le.classes_ (<<>> before fit)
  y,              \* data['label_encoded']
  X_columns,      \* columns of X after data.drop(columns=[...])
  train_idx,      \* 0-based row indices of X_train / y_train
  test_idx,       \* 0-based row indices of X_test / y_test
  scaler,         \* StandardScaler statistics
  X_train,        \* scaled training matrix
  X_test,         \* scaled test matrix
  clf,            \* the fitted DecisionTreeClassifier
  y_pred,         \* clf.predict(X_test)
  report,         \* rows of classification_report, accuracy
  tp,             \* result of firebase_connection.get('/Realtime', None)
  inputs,         \* values returned so far by get_valid_input, with the prompt
  predicted_crop, \* le.inverse_transform(...)[0]
  remote,         \* what RemoteStore calls did: <<"get_ok" | "get_raised" | ...>>
  events,         \* everything the run has done or printed, in order
  error,          \* the exception that ended the run ("" if none)
  hist,           \* entries read by the stand-alone get_valid_input call
  gvi,            \* the stand-alone get_valid_input call: range, result
  prev_split,     \* results of the stand-alone train_test_split calls so far
  rng_drawn       \* outputs drawn so far from random generators in this session

vars == <<pc, data, le, y, X_columns, train_idx, test_idx, scaler,
          X_train, X_test, clf, y_pred, report, tp, inputs, predicted_crop,
          remote, events, error, hist, gvi, prev_split, rng_drawn>>

----------------------------------------------------------------------------
(* Bounds of the model *)

\* Largest number of rows of a dataset in a full run of main.
MaxRows == 3

\* Largest number of rows of a dataset given to the split alone.
MaxSplitRows == 7

\* Rejected entries allowed in one full run of main.
MaxRetries == 1

\* Entries read by one stand-alone get_valid_input call.
MaxAttempts == 3

\* Stand-alone train_test_split calls on one dataset, after the first.
MaxResplits == 1

----------------------------------------------------------------------------
(* Sequences and small arithmetic *)

Range(s) == {s[i] : i \in 1..Len(s)}

RECURSIVE SumSeq(_)
SumSeq(s) == IF s = <<>> THEN 0 ELSE Head(s) + SumSeq(Tail(s))

RECURSIVE Pow2(_)
Pow2(k) == IF k = 0 THEN 1 ELSE 2 * Pow2(k - 1)

\* The elements of s that belong to keep, in order.
RECURSIVE SelectIdx(_, _)
SelectIdx(s, keep) ==
  IF s = <<>> THEN <<>>
  ELSE IF Head(s) \in keep THEN <<Head(s)>> \o SelectIdx(Tail(s), keep)
       ELSE SelectIdx(Tail(s), keep)

\* The ascending sequence of a finite set of integers.
RECURSIVE SortedSeq(_)
SortedSeq(S) ==
  IF S = {} THEN <<>>
  ELSE LET m == CHOOSE a \in S : \A b \in S : a <= b
       IN <<m>> \o SortedSeq(S \ {m})

----------------------------------------------------------------------------
(* The dataset file *)

\* Header of cpdata1.csv, as printed by data.head(1).
CsvColumns == <<"temperature", "humidity", "ph", "rainfall", "label">>

\* The crop names a dataset may use, in ascending code-point order
\* (upper case before lower case), the order numpy sorts strings in.
LabelOrder == <<"Tea", "rice">>

\* The feature rows a dataset may hold (temperature, humidity, ph, rainfall).
SampleRows == {<<20, 82, 6, 202>>, <<25, 60, 7, 100>>}

RowKinds == [x : SampleRows, label : Range(LabelOrder)]

Datasets(maxRows) == UNION {[1..n -> RowKinds] : n \in 0..maxRows}

----------------------------------------------------------------------------
(* LabelEncoder *)

\* le.fit: classes_ is the sorted sequence of the distinct labels.
LabelEncoder_fit(labels) == SelectIdx(LabelOrder, Range(labels))

\* le.transform of one label: its 0-based position in classes_.
LabelEncoder_encode(classes, label) ==
  (CHOOSE i \in 1..Len(classes) : classes[i] = label) - 1

\* le.inverse_transform of one code.
LabelEncoder_decode(classes, code) == classes[code + 1]

\* le.fit_transform(data['label'])
LabelEncoder_fit_transform(labels) ==
  LET classes == LabelEncoder_fit(labels)
  IN [classes |-> classes,
      codes |-> [i \in 1..Len(labels) |-> LabelEncoder_encode(classes, labels[i])]]

\* data.drop(columns=['label', 'label_encoded']): the remaining columns, in order.
DropLabelColumns(columns) ==
  SelectIdx(columns, Range(columns) \ {"label", "label_encoded"})

----------------------------------------------------------------------------
(* train_test_split(X, y, test_size=0.3, random_state=42) *)

\* test_size = 0.3, in tenths.
TestSizeTenths == 3

\* The low 16 bits of the first outputs of the Mersenne Twister seeded with
\* random_state = 42 (the full outputs are 1608637542, 3421126067, ...).
\* random_interval masks an output with 2^k - 1 <= 0xffff for n <= 65536 rows.
MT19937_42 ==
  <<56422, 15795, 860, 38158, 62570, 54343, 44732, 11284, 54886, 6265,
    16850, 62678, 37194, 21962, 47191, 60788, 44131, 60263, 16023, 41090,
    1685, 64820, 769, 59735, 62955, 64925, 56101, 2433, 5311, 37819,
    39188, 17568, 53707, 19769, 28693, 6396, 62187, 27480, 65072, 41434,
    25658, 18942, 57001, 18431, 64987, 2747, 58319, 59150>>

\* A split that rounds the test size down: floor(test_size * n_samples).
n_test_floor(n) == (TestSizeTenths * n) \div 10

\* ceil(test_size * n_samples)
n_test_of(n) == (TestSizeTenths * n + 9) \div 10

\* The smallest k with 2^k - 1 >= max.
RECURSIVE MaskBits(_, _)
MaskBits(max, k) == IF Pow2(k) - 1 >= max THEN k ELSE MaskBits(max, k + 1)

\* random_interval(state, max): a value in 0..max by rejection, and the
\* stream position after it.
RECURSIVE random_interval(_, _)
random_interval(max, pos) ==
  IF max = 0 THEN [value |-> 0, pos |-> pos]
  ELSE LET value == MT19937_42[pos + 1] % Pow2(MaskBits(max, 0))
       IN IF value <= max THEN [value |-> value, pos |-> pos + 1]
          ELSE random_interval(max, pos + 1)

\* RandomState.shuffle: for i = n-1 down to 1, swap arr[i] and arr[j],
\* j = random_interval(i).  arr is 1-based here and holds 0-based row indices.
RECURSIVE shuffle(_, _, _)
shuffle(arr, i, pos) ==
  IF i < 1 THEN [arr |-> arr, pos |-> pos]
  ELSE LET r == random_interval(i, pos)
           j == r.value
           swapped == [arr EXCEPT ![i + 1] = arr[j + 1], ![j + 1] = arr[i + 1]]
       IN shuffle(swapped, i - 1, r.pos)

\* rng.permutation(n_samples) of a RandomState whose stream is at pos.
permutation(n, pos) == shuffle([k \in 1..n |-> k - 1], n - 1, pos)

\* check_random_state(42): every call seeds a new RandomState, whose stream
\* starts at its first output whatever was drawn before.
split_rng_start(drawn) == 0

\* The split of n rows: ValueError when the train set would be empty, else
\* test = the first n_test permuted indices, train = the rest.
train_test_split(n, drawn) ==
  LET n_test == n_test_of(n)
      n_train == n - n_test
      p == permutation(n, split_rng_start(drawn))
  IN IF n_train = 0
     THEN [raised |-> TRUE, test |-> <<>>, train |-> <<>>, drawn |-> drawn]
     ELSE [raised |-> FALSE,
           test |-> SubSeq(p.arr, 1, n_test),
           train |-> SubSeq(p.arr, n_test + 1, n_test + n_train),
           drawn |-> p.pos]

----------------------------------------------------------------------------
(* Natural numbers of any size *)

\* A natural number is the sequence of its base-10000 digits, the least
\* significant first, without a leading zero digit; <<>> is 0.
RECURSIVE BnNorm(_)
BnNorm(a) ==
  IF a # <<>> /\ a[Len(a)] = 0 THEN BnNorm(SubSeq(a, 1, Len(a) - 1)) ELSE a

RECURSIVE BnFromInt(_)
BnFromInt(n) == IF n = 0 THEN <<>> ELSE <<n % 10000>> \o BnFromInt(n \div 10000)

RECURSIVE BnToInt(_)
BnToInt(a) == IF a = <<>> THEN 0 ELSE a[1] + 10000 * BnToInt(Tail(a))

\* -1, 0 or 1 as a < b, a = b or a > b.
RECURSIVE BnCmp(_, _)
BnCmp(a, b) ==
  IF Len(a) # Len(b) THEN (IF Len(a) < Len(b) THEN -1 ELSE 1)
  ELSE IF a = <<>> THEN 0
  ELSE IF a[Len(a)] # b[Len(b)] THEN (IF a[Len(a)] < b[Len(b)] THEN -1 ELSE 1)
  ELSE BnCmp(SubSeq(a, 1, Len(a) - 1), SubSeq(b, 1, Len(b) - 1))

RECURSIVE BnAddCarry(_, _, _)
BnAddCarry(a, b, carry) ==
  IF a = <<>> /\ b = <<>> THEN BnFromInt(carry)
  ELSE LET x == IF a = <<>> THEN 0 ELSE a[1]
           z == IF b = <<>> THEN 0 ELSE b[1]
           sum == x + z + carry
       IN <<sum % 10000>> \o BnAddCarry(IF a = <<>> THEN <<>> ELSE Tail(a),
                                        IF b = <<>> THEN <<>> ELSE Tail(b),
                                        sum \div 10000)

BnAdd(a, b) == BnNorm(BnAddCarry(a, b, 0))

RECURSIVE BnSubBorrow(_, _, _)
BnSubBorrow(a, b, borrow) ==
  IF a = <<>> THEN <<>>
  ELSE LET z == IF b = <<>> THEN 0 ELSE b[1]
           d == a[1] - z - borrow
       IN <<IF d < 0 THEN d + 10000 ELSE d>>
          \o BnSubBorrow(Tail(a), IF b = <<>> THEN <<>> ELSE Tail(b),
                         IF d < 0 THEN 1 ELSE 0)

\* a - b for a >= b.
BnSub(a, b) == BnNorm(BnSubBorrow(a, b, 0))

\* a * c + carry for 0 <= c <= 10000 and 0 <= carry <= 10000.
RECURSIVE BnMulCarry(_, _, _)
BnMulCarry(a, c, carry) ==
  IF a = <<>> THEN BnFromInt(carry)
  ELSE LET p == a[1] * c + carry
       IN <<p % 10000>> \o BnMulCarry(Tail(a), c, p \div 10000)

BnMulSmall(a, c) == BnNorm(BnMulCarry(a, c, 0))

RECURSIVE BnMul(_, _)
BnMul(a, b) ==
  IF a = <<>> \/ b = <<>> THEN <<>>
  ELSE BnAdd(BnMulSmall(b, a[1]), <<0>> \o BnMul(Tail(a), b))

\* 2^j for j in 0..13.
TwoTo(j) ==
  <<1, 2, 4, 8, 16, 32, 64, 128, 256, 512, 1024, 2048, 4096, 8192>>[j + 1]

\* a * 2^k.
RECURSIVE BnMulPow2(_, _)
BnMulPow2(a, k) ==
  IF k = 0 THEN a
  ELSE IF k >= 13 THEN BnMulPow2(BnMulSmall(a, 8192), k - 13)
  ELSE BnMulSmall(a, TwoTo(k))

\* Quotient and remainder of a by c, 0 < c <= 10000.
RECURSIVE BnDivRem(_, _)
BnDivRem(a, c) ==
  IF a = <<>> THEN [q |-> <<>>, r |-> 0]
  ELSE LET hi == BnDivRem(Tail(a), c)
           cur == hi.r * 10000 + a[1]
       IN [q |-> <<cur \div c>> \o hi.q, r |-> cur % c]

\* floor(a / 2^k), and whether a remainder was dropped.
RECURSIVE BnDivPow2(_, _)
BnDivPow2(a, k) ==
  IF k = 0 THEN [q |-> a, inexact |-> FALSE]
  ELSE LET step == IF k >= 13 THEN 13 ELSE k
           d == BnDivRem(a, TwoTo(step))
           rest == BnDivPow2(BnNorm(d.q), k - step)
       IN [q |-> rest.q, inexact |-> rest.inexact \/ d.r # 0]

\* a / 5^k when that is whole (inexact otherwise).
RECURSIVE BnDivPow5(_, _)
BnDivPow5(a, k) ==
  IF k = 0 THEN [q |-> a, inexact |-> FALSE]
  ELSE LET step == IF k >= 5 THEN 5 ELSE k
           d == BnDivRem(a, <<5, 25, 125, 625, 3125>>[step])
       IN IF d.r # 0 THEN [q |-> <<>>, inexact |-> TRUE]
          ELSE BnDivPow5(BnNorm(d.q), k - step)

\* floor(a / 10^k), and whether a remainder was dropped: k \div 4 whole
\* base-10000 digits go, then k % 4 decimal ones.
BnDivPow10(a, k) ==
  LET cut == IF k \div 4 < Len(a) THEN k \div 4 ELSE Len(a)
      d == BnDivRem(SubSeq(a, cut + 1, Len(a)), <<1, 10, 100, 1000>>[(k % 4) + 1])
  IN [q |-> BnNorm(d.q), inexact |-> d.r # 0 \/ \E i \in 1..cut : a[i] # 0]

----------------------------------------------------------------------------
(* float values *)

Abs(a) == IF a < 0 THEN -a ELSE a

\* A finite float64 is +-num / 2^t exactly: [kind |-> "num", neg, num, t] with
\* num a natural number, odd unless t = 0, and zero unsigned (0.0 == -0.0).
RECURSIVE Dyadic(_, _, _)

\* 2^j divides num, for j in 0..13.
Divides(num, j) == BnDivRem(num, TwoTo(j)).r = 0

\* The largest j <= most with 2^j dividing num # 0, for most in 0..13.
TrailingZeros(num, most) ==
  IF Divides(num, most) THEN most
  ELSE CHOOSE j \in 0..(most - 1) : Divides(num, j) /\ ~Divides(num, j + 1)

\* +-num / 2^t with 2^step cancelled.
Cancelled(neg, num, t, step) ==
  IF step > 0 THEN Dyadic(neg, BnNorm(BnDivRem(num, TwoTo(step)).q), t - step)
  ELSE [kind |-> "num", neg |-> neg, num |-> num, t |-> t]

Dyadic(neg, num, t) ==
  IF num = <<>> THEN [kind |-> "num", neg |-> FALSE, num |-> <<>>, t |-> 0]
  ELSE Cancelled(neg, num, t, TrailingZeros(num, IF t < 13 THEN t ELSE 13))

\* The float64 of a dataset cell: read_csv parses it as float() does, and
\* the integer cells of the sample rows are floats exactly.
DoubleOfInt(n) == Dyadic(n < 0, BnFromInt(Abs(n)), 0)

\* -1, 0 or 1 as the finite float v is below, equal to or above the int b.
CmpInt(v, b) ==
  IF v.neg
  THEN IF b >= 0 THEN -1 ELSE 0 - BnCmp(v.num, BnMulPow2(BnFromInt(-b), v.t))
  ELSE IF b < 0 THEN 1 ELSE BnCmp(v.num, BnMulPow2(BnFromInt(b), v.t))

\* (+-a) - (+-b), as a sign and a magnitude.
SignedSub(aneg, a, bneg, b) ==
  IF aneg # bneg THEN [neg |-> aneg, mag |-> BnAdd(a, b)]
  ELSE IF BnCmp(a, b) >= 0 THEN [neg |-> aneg, mag |-> BnSub(a, b)]
  ELSE [neg |-> ~aneg, mag |-> BnSub(b, a)]

\* Two scaled cells [sign, num, den], each standing for sign * sqrt(num / den),
\* are the same number.
CellEq(c, d) == c.sign = d.sign /\ BnMul(c.num, d.den) = BnMul(d.num, c.den)

\* Two scaled rows hold the same values.
RowEq(r, q) == Len(r) = Len(q) /\ \A j \in 1..Len(r) : CellEq(r[j], q[j])

\* A row of dataset cells as floats.
RowOfInts(x) == [j \in 1..Len(x) |-> DoubleOfInt(x[j])]

----------------------------------------------------------------------------
(* StandardScaler *)

UnfittedScaler == [fitted |-> FALSE, n |-> 0, sum |-> <<>>, sumsq |-> <<>>]

\* scaler.fit(rows): n_samples_seen_ = n, mean_[j] = sum[j] / n,
\* var_[j] = sumsq[j] / n - mean_[j]^2, scale_[j] = sqrt(var_[j]), or 1 when
\* var_[j] = 0.
StandardScaler_fit(rows) ==
  LET width == IF rows = <<>> THEN 0 ELSE Len(rows[1])
  IN [fitted |-> TRUE,
      n |-> Len(rows),
      sum |-> [j \in 1..width |-> SumSeq([i \in 1..Len(rows) |-> rows[i][j]])],
      sumsq |-> [j \in 1..width |->
                   SumSeq([i \in 1..Len(rows) |-> rows[i][j] * rows[i][j]])]]

\* n^2 * var_[j] = n * sumsq[j] - sum[j]^2.
VarTimesN2(s, j) == s.n * s.sumsq[j] - s.sum[j] * s.sum[j]

\* The cell of square c^2 / den and of the sign of c.
SignAndSquare(c, den) ==
  [sign |-> IF c.mag = <<>> THEN 0 ELSE IF c.neg THEN -1 ELSE 1,
   num |-> BnMul(c.mag, c.mag),
   den |-> den]

\* (x - mean_[j]) / scale_[j] for the float x = +-x.num / 2^x.t, as its sign
\* and its square num / den.  With c = +-x.num * n - sum[j] * 2^t,
\* x - mean_[j] = c / (2^t * n), and scale_[j]^2 = var_[j] = VarTimesN2 / n^2,
\* or 1 when var_[j] = 0.
ScaledCell(s, j, x) ==
  SignAndSquare(SignedSub(x.neg, BnMul(x.num, BnFromInt(s.n)),
                          s.sum[j] < 0, BnMulPow2(BnFromInt(Abs(s.sum[j])), x.t)),
                BnMulPow2(BnFromInt(IF VarTimesN2(s, j) = 0 THEN s.n * s.n
                                    ELSE VarTimesN2(s, j)), 2 * x.t))

\* scaler.transform(rows): (x - mean_) / scale_ in every cell.
StandardScaler_transform(s, rows) ==
  [i \in 1..Len(rows) |-> [j \in 1..Len(rows[i]) |-> ScaledCell(s, j, rows[i][j])]]

\* A transform that also folds the rows it is given into the statistics, as
\* partial_fit would.
StandardScaler_transform_refits(s, rows) ==
  [s EXCEPT !.n = s.n + Len(rows),
            !.sum = [j \in 1..Len(s.sum) |->
                       s.sum[j] + SumSeq([i \in 1..Len(rows) |->
                         BnToInt(BnDivPow2(rows[i][j].num, rows[i][j].t).q)])]]

\* The statistics after scaler.transform(rows): transform reads them only.
StandardScaler_after_transform(s, rows) == s

----------------------------------------------------------------------------
(* DecisionTreeClassifier *)

UnfittedTree == [fitted |-> FALSE, X |-> <<>>, y |-> <<>>]

\* clf.fit(X_train, y_train).  The tree is grown until every leaf is pure or
\* holds rows with identical features, so it is represented by its training
\* rows; which thresholds it chose depends on the classifier's unseeded
\* feature permutation.
DecisionTreeClassifier_fit(X, yv) == [fitted |-> TRUE, X |-> X, y |-> yv]

\* The codes clf.predict may return for x.  On a vector equal to training
\* rows: the majority code of those rows (argmax: the lowest code on a tie).
\* On any other vector: the code of some leaf, that is any code of y_train.
DecisionTreeClassifier_predict(tree, x) ==
  LET same == {i \in 1..Len(tree.X) : RowEq(tree.X[i], x)}
      count(c) == Cardinality({i \in same : tree.y[i] = c})
      codes == {tree.y[i] : i \in same}
  IN IF same = {} THEN Range(tree.y)
     ELSE {CHOOSE c \in codes :
             \A d \in codes : count(c) > count(d) \/ (count(c) = count(d) /\ c <= d)}

\* The vectors y_pred that clf.predict(X) may return: one tree answers every
\* row, so equal rows get equal codes.
PredictAll(tree, X) ==
  {f \in [1..Len(X) -> Range(tree.y)] :
     /\ \A i \in 1..Len(X) : f[i] \in DecisionTreeClassifier_predict(tree, X[i])
     /\ \A i, k \in 1..Len(X) : RowEq(X[i], X[k]) => f[i] = f[k]}

----------------------------------------------------------------------------
(* classification_report, accuracy_score *)

\* classification_report(y_true, y_pred, target_names=target_names) with no
\* labels argument: labels = the sorted codes present in y_true or y_pred;
\* ValueError when their number differs from len(target_names); else row k
\* is labels[k] named target_names[k].
classification_report(y_true, yp, target_names) ==
  LET labels == SortedSeq(Range(y_true) \cup Range(yp))
      n == Len(y_true)
  IN IF Len(labels) # Len(target_names)
     THEN [raised |-> TRUE, rows |-> <<>>]
     ELSE [raised |-> FALSE,
           rows |-> [k \in 1..Len(labels) |->
             [code |-> labels[k],
              name |-> target_names[k],
              support |-> Cardinality({i \in 1..n : y_true[i] = labels[k]}),
              predicted |-> Cardinality({i \in 1..n : yp[i] = labels[k]}),
              hit |-> Cardinality({i \in 1..n :
                                     y_true[i] = labels[k] /\ yp[i] = labels[k]})]]]

\* accuracy_score(y_true, y_pred), as correct / total.
accuracy_score(y_true, yp) ==
  [correct |-> Cardinality({i \in 1..Len(y_true) : y_true[i] = yp[i]}),
   total |-> Len(y_true)]

----------------------------------------------------------------------------
(* float(input(prompt)) *)

\* A line typed by the user is a sequence of characters of this alphabet
\* (no exponent and no underscore, which float() would also read).
DigitChars == <<"0", "1", "2", "3", "4", "5", "6", "7", "8", "9">>

Alphabet == Range(DigitChars) \cup {".", "-", "+", " ", "a", "b", "c", "n", "i", "f"}

DigitVal(c) == (CHOOSE k \in 1..10 : DigitChars[k] = c) - 1

RECURSIVE StripLeft(_)
StripLeft(s) == IF s # <<>> /\ Head(s) = " " THEN StripLeft(Tail(s)) ELSE s

RECURSIVE StripRight(_)
StripRight(s) ==
  IF s # <<>> /\ s[Len(s)] = " " THEN StripRight(SubSeq(s, 1, Len(s) - 1)) ELSE s

\* The integer a sequence of at most four digits denotes (0 for none).
RECURSIVE DigitsInt(_)
DigitsInt(s) ==
  IF s = <<>> THEN 0
  ELSE 10 * DigitsInt(SubSeq(s, 1, Len(s) - 1)) + DigitVal(s[Len(s)])

\* The base-10000 digits of a sequence of decimal digits: four at a time,
\* from the right.
RECURSIVE DigitLimbs(_)
DigitLimbs(s) ==
  IF Len(s) <= 4 THEN <<DigitsInt(s)>>
  ELSE <<DigitsInt(SubSeq(s, Len(s) - 3, Len(s)))>>
       \o DigitLimbs(SubSeq(s, 1, Len(s) - 4))

\* The natural number a sequence of digits denotes (0 for none).
DigitsValue(s) == BnNorm(DigitLimbs(s))

RECURSIVE StripZeros(_)
StripZeros(s) == IF s # <<>> /\ Head(s) = "0" THEN StripZeros(Tail(s)) ELSE s

\* floor(up.q / 10^f), and whether up or this division dropped a remainder.
ThenDivPow10(up, f) ==
  [q |-> BnDivPow10(up.q, f).q,
   inexact |-> up.inexact \/ BnDivPow10(up.q, f).inexact]

\* floor(d * 2^k / 10^f), and whether a remainder was dropped.
Scaled(d, f, k) ==
  IF k >= 0 THEN BnDivPow10(BnMulPow2(d, k), f)
  ELSE ThenDivPow10(BnDivPow2(d, -k), f)

\* The least and the limit of a 53-bit significand.
TwoTo52 == BnMulPow2(<<1>>, 52)
TwoTo53 == BnMulPow2(<<1>>, 53)

\* 2^52 <= q < 2^53: q is a full 53-bit significand.
IsSignificand(q) == BnCmp(q, TwoTo52) >= 0 /\ BnCmp(q, TwoTo53) < 0

\* The i in 0..5 that makes q * 2^i a full significand.
Shift(q) == CHOOSE i \in 0..5 : IsSignificand(BnMulSmall(q, TwoTo(i)))

\* The binary exponent of d / 10^f: the k that puts d * 2^k / 10^f in
\* [2^52, 2^53), one of the six from low on, and 1074 at most (below
\* 2^-1022 the significand has fewer bits).
Exponent(d, f, low) ==
  IF low + Shift(Scaled(d, f, low).q) > 1074 THEN 1074
  ELSE low + Shift(Scaled(d, f, low).q)

\* below, or below + 1 when the dropped part is more than a half, or is a
\* half and below is odd.
TiesToEven(below, half, inexact) ==
  IF half /\ (inexact \/ (below # <<>> /\ below[1] % 2 = 1))
  THEN BnAdd(below, <<1>>)
  ELSE below

\* The integer nearest to x, from twice = floor(2 * x) and whether 2 * x had
\* a fraction.
Nearest(twice) ==
  TiesToEven(BnNorm(BnDivRem(twice.q, 2).q), BnDivRem(twice.q, 2).r = 1,
             twice.inexact)

\* The float +-m / 2^k; an infinity from 2^1024 on.
Float64(neg, m, k) ==
  IF k >= 0 THEN Dyadic(neg, m, k)
  ELSE IF k <= -971 /\ BnCmp(BnMulPow2(m, -k), BnMulPow2(<<1>>, 1024)) >= 0
    THEN [kind |-> "inf", neg |-> neg, num |-> <<>>, t |-> 0]
  ELSE Dyadic(neg, BnMulPow2(m, -k), 0)

\* +-d / 10^f rounded to a significand of exponent k.
Rounded(neg, d, f, k) == Float64(neg, Nearest(Scaled(d, f, k + 1)), k)

\* The float64 nearest to +-d / 10^f for d > 0 of len decimal digits, a half
\* rounded to the even significand.  10^(len - f - 1) <= d / 10^f <
\* 10^(len - f) bounds the exponent.
NearestDouble(neg, d, len, f) ==
  Rounded(neg, d, f, Exponent(d, f, 51 - ((3322 * (len - f)) \div 1000)))

\* +-d / 10^f = +-fifths.q / 2^f is a float as it stands when d has at most
\* 15 digits (d < 2^53) and d / 5^f = fifths.q is whole; any other decimal is
\* rounded.
ExactOrNearest(neg, d, len, f, fifths) ==
  IF len <= 15 /\ ~fifths.inexact THEN Dyadic(neg, fifths.q, f)
  ELSE NearestDouble(neg, d, len, f)

\* The float of the literal +-digits / 10^f.
DecimalFloat(neg, digits, f) ==
  IF StripZeros(digits) = <<>> THEN Dyadic(FALSE, <<>>, 0)
  ELSE ExactOrNearest(neg, DigitsValue(StripZeros(digits)),
                      Len(StripZeros(digits)), f,
                      BnDivPow5(DigitsValue(StripZeros(digits)), f))

\* float(s): leading and trailing blanks dropped, an optional sign, then nan,
\* inf, or digits with at most one point and at least one digit, rounded to
\* the nearest float64.  Anything else raises ValueError.
ParseFloat(s) ==
  LET t == StripRight(StripLeft(s))
      signed == t # <<>> /\ Head(t) \in {"+", "-"}
      neg == signed /\ Head(t) = "-"
      body == IF signed THEN Tail(t) ELSE t
      dots == {k \in 1..Len(body) : body[k] = "."}
      dot == IF dots = {} THEN Len(body) + 1 ELSE CHOOSE k \in dots : TRUE
      whole == SubSeq(body, 1, dot - 1)
      frac == SubSeq(body, dot + 1, Len(body))
      digits == whole \o frac
  IN IF body = <<"n", "a", "n">>
       THEN [kind |-> "nan", neg |-> FALSE, num |-> <<>>, t |-> 0]
     ELSE IF body = <<"i", "n", "f">>
       THEN [kind |-> "inf", neg |-> neg, num |-> <<>>, t |-> 0]
     ELSE IF Cardinality(dots) <= 1 /\ digits # <<>>
             /\ \A k \in 1..Len(digits) : digits[k] \in Range(DigitChars)
       THEN DecimalFloat(neg, digits, Len(frac))
     ELSE [kind |-> "ValueError", neg |-> FALSE, num |-> <<>>, t |-> 0]

\* min_val <= value <= max_val on floats: false for nan, and for an infinity
\* against finite bounds.
InClosedRange(v, min_val, max_val) ==
  /\ v.kind = "num"
  /\ CmpInt(v, min_val) >= 0
  /\ CmpInt(v, max_val) <= 0

----------------------------------------------------------------------------
(* get_valid_input *)

\* A loop whose range test excludes the endpoints: min_val < value < max_val.
get_valid_input_open_range(entry, min_val, max_val) ==
  LET value == ParseFloat(entry)
  IN IF value.kind = "ValueError"
     THEN [returned |-> FALSE, raised |-> FALSE, value |-> value,
           printed |-> "Invalid input. Please enter a numeric value."]
     ELSE IF /\ value.kind = "num"
             /\ CmpInt(value, min_val) > 0
             /\ CmpInt(value, max_val) < 0
     THEN [returned |-> TRUE, raised |-> FALSE, value |-> value, printed |-> ""]
     ELSE [returned |-> FALSE, raised |-> FALSE, value |-> value,
           printed |-> "Please enter a value between min_val and max_val."]

\* A loop without the except clause: float()'s ValueError leaves the function.
get_valid_input_no_except(entry, min_val, max_val) ==
  LET value == ParseFloat(entry)
  IN IF value.kind = "ValueError"
     THEN [returned |-> FALSE, raised |-> TRUE, value |-> value, printed |-> ""]
     ELSE IF InClosedRange(value, min_val, max_val)
     THEN [returned |-> TRUE, raised |-> FALSE, value |-> value, printed |-> ""]
     ELSE [returned |-> FALSE, raised |-> FALSE, value |-> value,
           printed |-> "Please enter a value between min_val and max_val."]

\* One pass of the while loop on the line just read: return the value, or
\* print a message and go round again.
get_valid_input(entry, min_val, max_val) ==
  LET value == ParseFloat(entry)
  IN IF value.kind = "ValueError"
     THEN [returned |-> FALSE, raised |-> FALSE, value |-> value,
           printed |-> "Invalid input. Please enter a numeric value."]
     ELSE IF InClosedRange(value, min_val, max_val)
     THEN [returned |-> TRUE, raised |-> FALSE, value |-> value, printed |-> ""]
     ELSE [returned |-> FALSE, raised |-> FALSE, value |-> value,
           printed |-> "Please enter a value between min_val and max_val."]

\* input_ranges of predict_and_send_to_firebase, in insertion order: the
\* quantity each prompt asks for, and its closed range.
input_ranges ==
  <<[key |-> "Air Humidity (%)", quantity |-> "humidity", min |-> 10, max |-> 90],
    [key |-> "Air Temperature (C)", quantity |-> "temperature", min |-> 10, max |-> 45],
    [key |-> "Soil pH", quantity |-> "ph", min |-> 4, max |-> 9],
    [key |-> "Rainfall (mm)", quantity |-> "rainfall", min |-> 0, max |-> 300]>>

\* The lines the user may type in a stand-alone get_valid_input call.
Entries ==
  {<<"a", "b", "c">>, <<"1", "5", "0">>, <<"4", "5">>, <<>>, <<"1", "0">>,
   <<"9", "0">>, <<"9">>, <<" ", "7", ".", "5">>, <<"-", "5">>,
   <<"4", "5", ".", "0">>, <<"n", "a", "n">>, <<"9", ".", "1">>,
   <<"9", ".", "9", "9", "9", "9", "9", "9", "9", "9", "9", "9", "9", "9", "9",
     "9", "9", "9">>,
   <<"9", "0", ".", "0", "0", "0", "0", "0", "0", "0", "0", "0", "0", "0", "0",
     "0", "0", "1">>}

\* The lines the user may type in a full run of main.
MainEntries == {<<"a", "b", "c">>, <<"1", "5", "0">>, <<"4", "5">>, <<"7", ".", "5">>}

----------------------------------------------------------------------------
(* State *)

NoReport == [printed |-> FALSE, rows |-> <<>>, accuracy |-> [correct |-> 0, total |-> 0]]

NoCall == [min |-> 0, max |-> 0, returned |-> FALSE, value |-> [kind |-> "none", neg |-> FALSE, num |-> <<>>, t |-> 0]]

\* Everything but pc, data and gvi, before main has done anything.
Fresh ==
  /\ le = <<>>
  /\ y = <<>>
  /\ X_columns = <<>>
  /\ train_idx = <<>>
  /\ test_idx = <<>>
  /\ scaler = UnfittedScaler
  /\ X_train = <<>>
  /\ X_test = <<>>
  /\ clf = UnfittedTree
  /\ y_pred = <<>>
  /\ report = NoReport
  /\ tp = "unset"
  /\ inputs = <<>>
  /\ predicted_crop = ""
  /\ remote = <<>>
  /\ events = <<>>
  /\ error = ""
  /\ hist = <<>>
  /\ prev_split = <<>>
  /\ rng_drawn = 0

\* main is about to run on some dataset file.
Init ==
  /\ pc = "start"
  /\ data \in Datasets(MaxRows)
  /\ gvi = NoCall
  /\ Fresh

Count(kind) == Cardinality({i \in 1..Len(events) : events[i] = kind})

FirstIndex(kind) ==
  IF \E i \in 1..Len(events) : events[i] = kind
  THEN CHOOSE i \in 1..Len(events) :
         events[i] = kind /\ \A k \in 1..(i - 1) : events[k] # kind
  ELSE 0

TrainRows == [i \in 1..Len(train_idx) |-> data[train_idx[i] + 1].x]
TestRows == [i \in 1..Len(test_idx) |-> data[test_idx[i] + 1].x]
y_train == [i \in 1..Len(train_idx) |-> y[train_idx[i] + 1]]
y_test == [i \in 1..Len(test_idx) |-> y[test_idx[i] + 1]]

Floats(rows) == [i \in 1..Len(rows) |-> RowOfInts(rows[i])]

----------------------------------------------------------------------------
(* preprocess_data *)

\* data = pd.read_csv(filepath); print the first row.
read_csv ==
  /\ pc = "start"
  /\ pc' = "encode"
  /\ events' = events \o <<"read_csv", "print: First row of data:", "print: head">>
  /\ UNCHANGED <<data, le, y, X_columns, train_idx, test_idx, scaler, X_train,
                 X_test, clf, y_pred, report, tp, inputs, predicted_crop, remote,
                 error, hist, gvi, prev_split, rng_drawn>>

\* le.fit_transform(data['label']); y; X = data.drop(...).
encode_labels ==
  /\ pc = "encode"
  /\ LET r == LabelEncoder_fit_transform([i \in 1..Len(data) |-> data[i].label])
     IN /\ le' = r.classes
        /\ y' = r.codes
  /\ X_columns' = DropLabelColumns(CsvColumns \o <<"label_encoded">>)
  /\ pc' = "split"
  /\ events' = Append(events, "le.fit_transform")
  /\ UNCHANGED <<data, train_idx, test_idx, scaler, X_train, X_test, clf, y_pred,
                 report, tp, inputs, predicted_crop, remote, error, hist, gvi,
                 prev_split, rng_drawn>>

\* train_test_split(X, y, test_size=0.3, random_state=42)
split_data ==
  /\ pc = "split"
  /\ LET r == train_test_split(Len(data), rng_drawn)
     IN /\ train_idx' = r.train
        /\ test_idx' = r.test
        /\ rng_drawn' = r.drawn
        /\ pc' = IF r.raised THEN "crashed" ELSE "scale"
        /\ error' = IF r.raised THEN "ValueError: the resulting train set will be empty"
                    ELSE error
        /\ events' = Append(events, IF r.raised THEN "raise" ELSE "train_test_split")
  /\ UNCHANGED <<data, le, y, X_columns, scaler, X_train, X_test, clf, y_pred,
                 report, tp, inputs, predicted_crop, remote, hist, gvi, prev_split>>

\* scaler = StandardScaler(); X_train = scaler.fit_transform(X_train)
scale_train ==
  /\ pc = "scale"
  /\ scaler' = StandardScaler_fit(TrainRows)
  /\ X_train' = StandardScaler_transform(scaler', Floats(TrainRows))
  /\ pc' = "scale_test"
  /\ events' = Append(events, "scaler.fit")
  /\ UNCHANGED <<data, le, y, X_columns, train_idx, test_idx, X_test, clf, y_pred,
                 report, tp, inputs, predicted_crop, remote, error, hist, gvi,
                 prev_split, rng_drawn>>

\* X_test = scaler.transform(X_test); return.
scale_test ==
  /\ pc = "scale_test"
  /\ X_test' = StandardScaler_transform(scaler, Floats(TestRows))
  /\ scaler' = StandardScaler_after_transform(scaler, Floats(TestRows))
  /\ pc' = "train"
  /\ events' = Append(events, "scaler.transform(X_test)")
  /\ UNCHANGED <<data, le, y, X_columns, train_idx, test_idx, X_train, clf, y_pred,
                 report, tp, inputs, predicted_crop, remote, error, hist, gvi,
                 prev_split, rng_drawn>>

----------------------------------------------------------------------------
(* train_and_evaluate_model *)

\* clf = DecisionTreeClassifier(); clf.fit(X_train, y_train)
fit_tree ==
  /\ pc = "train"
  /\ clf' = DecisionTreeClassifier_fit(X_train, y_train)
  /\ pc' = "evaluate"
  /\ events' = Append(events, "clf.fit")
  /\ UNCHANGED <<data, le, y, X_columns, train_idx, test_idx, scaler, X_train,
                 X_test, y_pred, report, tp, inputs, predicted_crop, remote, error,
                 hist, gvi, prev_split, rng_drawn>>

\* y_pred = clf.predict(X_test); print the report and the accuracy; return clf.
\* classification_report raises after the heading has been printed.
evaluate ==
  /\ pc = "evaluate"
  /\ \E yp \in PredictAll(clf, X_test) :
       LET r == classification_report(y_test, yp, le)
       IN /\ y_pred' = yp
          /\ IF r.raised
             THEN /\ pc' = "crashed"
                  /\ error' = "ValueError: Number of classes does not match size of target_names"
                  /\ report' = report
                  /\ events' = events \o <<"clf.predict(X_test)",
                                           "print: Classification Report:", "raise">>
             ELSE /\ pc' = "gate"
                  /\ error' = error
                  /\ report' = [printed |-> TRUE, rows |-> r.rows,
                                accuracy |-> accuracy_score(y_test, yp)]
                  /\ events' = events \o <<"clf.predict(X_test)",
                                           "print: Classification Report:",
                                           "print: report", "print: Model Accuracy">>
  /\ UNCHANGED <<data, le, y, X_columns, train_idx, test_idx, scaler, X_train,
                 X_test, clf, tp, inputs, predicted_crop, remote, hist, gvi,
                 prev_split, rng_drawn>>

----------------------------------------------------------------------------
(* main: the RemoteStore gate *)

\* Python's None, as returned by get for a path that holds nothing.
PyNone == "None"

\* What firebase_connection.get('/Realtime', None) may do: raise (no
\* connection, HTTP error), or return the JSON at the path: null, an empty
\* value such as "", or a non-empty value.
firebase_get_outcomes == {"raise", PyNone, "", "value"}

\* A main that calls predict_and_send_to_firebase whatever get returned.
tp_is_ignored(t) == TRUE

\* if tp is not None
tp_is_not_None(t) == t # PyNone

\* firebase_connection.get(...), then predict_and_send_to_firebase or the
\* failure message.  The call is not inside a try block.
gate ==
  /\ pc = "gate"
  /\ \E outcome \in firebase_get_outcomes :
       IF outcome = "raise"
       THEN /\ pc' = "crashed"
            /\ error' = "RemoteStore.get raised"
            /\ remote' = Append(remote, "get raised")
            /\ events' = events \o <<"get", "raise">>
            /\ tp' = tp
       ELSE /\ tp' = outcome
            /\ error' = error
            /\ remote' = Append(remote, "get returned")
            /\ IF tp_is_not_None(outcome)
               THEN /\ pc' = "input"
                    /\ events' = Append(events, "get")
               ELSE /\ pc' = "done"
                    /\ events' = events \o
                         <<"get", "print: Failed to retrieve data from Firebase.">>
  /\ UNCHANGED <<data, le, y, X_columns, train_idx, test_idx, scaler, X_train,
                 X_test, clf, y_pred, report, inputs, predicted_crop, hist, gvi,
                 prev_split, rng_drawn>>

----------------------------------------------------------------------------
(* predict_and_send_to_firebase *)

Rejections ==
  Count("print: Invalid input. Please enter a numeric value.")
  + Count("print: Please enter a value between min_val and max_val.")

\* One line read by the get_valid_input call for the next key of
\* input_ranges; the value it returns is appended to inputs.
read_input ==
  /\ pc = "input"
  /\ \E entry \in MainEntries :
       LET k == Len(inputs) + 1
           r == get_valid_input(entry, input_ranges[k].min, input_ranges[k].max)
       IN /\ r.returned \/ Rejections < MaxRetries
          /\ IF r.raised
             THEN /\ pc' = "crashed"
                  /\ error' = "ValueError"
                  /\ inputs' = inputs
                  /\ events' = events \o <<"input", "raise">>
             ELSE IF r.returned
             THEN /\ pc' = IF k = Len(input_ranges) THEN "predict" ELSE "input"
                  /\ error' = error
                  /\ inputs' = Append(inputs, [quantity |-> input_ranges[k].quantity,
                                               value |-> r.value])
                  /\ events' = Append(events, "input")
             ELSE /\ pc' = "input"
                  /\ error' = error
                  /\ inputs' = inputs
                  /\ events' = events \o <<"input", "print: " \o r.printed>>
  /\ UNCHANGED <<data, le, y, X_columns, train_idx, test_idx, scaler, X_train,
                 X_test, clf, y_pred, report, tp, predicted_crop, remote, hist, gvi,
                 prev_split, rng_drawn>>

\* scaler.transform([inputs]); clf.predict; le.inverse_transform; print.
predict_one ==
  /\ pc = "predict"
  /\ LET vector == <<[j \in 1..Len(inputs) |-> inputs[j].value]>>
         scaled == StandardScaler_transform(scaler, vector)[1]
     IN /\ scaler' = StandardScaler_after_transform(scaler, vector)
        /\ \E code \in DecisionTreeClassifier_predict(clf, scaled) :
             /\ \A i \in 1..Len(X_test) : RowEq(X_test[i], scaled) => code = y_pred[i]
             /\ predicted_crop' = LabelEncoder_decode(le, code)
  /\ pc' = "put"
  /\ events' = events \o <<"scaler.transform([inputs])", "clf.predict([inputs])",
                           "print: The predicted crop is">>
  /\ UNCHANGED <<data, le, y, X_columns, train_idx, test_idx, X_train, X_test, clf,
                 y_pred, report, tp, inputs, remote, error, hist, gvi, prev_split,
                 rng_drawn>>

\* What FirebaseApplication(firebase_url) followed by
\* put('/croppredicted', 'crop', predicted_crop) may do: both sit in the try
\* block, so a failure of either is one raised exception.
firebase_put_outcomes == {"ok", "raise"}

\* A put outside any try block: its exception leaves the function.
put_without_try(outcome) ==
  IF outcome = "ok"
  THEN [pc |-> "done", error |-> "",
        printed |-> "print: Prediction successfully sent to Firebase!"]
  ELSE [pc |-> "crashed", error |-> "RemoteStore.put raised", printed |-> "raise"]

\* The try block around FirebaseApplication(...) and put(...): an exception is
\* caught and printed, and the function returns.
try_put(outcome) ==
  IF outcome = "ok"
  THEN [pc |-> "done", error |-> "",
        printed |-> "print: Prediction successfully sent to Firebase!"]
  ELSE [pc |-> "done", error |-> "",
        printed |-> "print: Error sending data to Firebase"]

put_prediction ==
  /\ pc = "put"
  /\ \E outcome \in firebase_put_outcomes :
       LET r == try_put(outcome)
       IN /\ pc' = r.pc
          /\ error' = r.error
          /\ remote' = Append(remote, IF outcome = "ok" THEN "put returned"
                                      ELSE "put raised")
          /\ events' = events \o <<"put", r.printed>>
  /\ UNCHANGED <<data, le, y, X_columns, train_idx, test_idx, scaler, X_train,
                 X_test, clf, y_pred, report, tp, inputs, predicted_crop, hist, gvi,
                 prev_split, rng_drawn>>

----------------------------------------------------------------------------
(* main *)

Next ==
  \/ read_csv
  \/ encode_labels
  \/ split_data
  \/ scale_train
  \/ scale_test
  \/ fit_tree
  \/ evaluate
  \/ gate
  \/ read_input
  \/ predict_one
  \/ put_prediction

Spec == Init /\ [][Next]_vars

----------------------------------------------------------------------------
(* get_valid_input on its own *)

InitInput ==
  /\ pc = "gvi"
  /\ data = <<>>
  /\ \E k \in 1..Len(input_ranges) :
       gvi = [NoCall EXCEPT !.min = input_ranges[k].min, !.max = input_ranges[k].max]
  /\ Fresh

\* One pass of the loop: read a line, return its value or print and repeat.
gvi_read ==
  /\ pc = "gvi"
  /\ Len(hist) < MaxAttempts
  /\ \E entry \in Entries :
       LET r == get_valid_input(entry, gvi.min, gvi.max)
       IN /\ hist' = Append(hist, entry)
          /\ pc' = IF r.raised THEN "gvi_raised"
                   ELSE IF r.returned THEN "gvi_returned" ELSE "gvi"
          /\ gvi' = IF r.returned /\ ~r.raised
                    THEN [gvi EXCEPT !.returned = TRUE, !.value = r.value]
                    ELSE gvi
          /\ events' = IF r.raised THEN events \o <<"input", "raise">>
                       ELSE IF r.returned THEN Append(events, "input")
                       ELSE events \o <<"input", "print: " \o r.printed>>
  /\ UNCHANGED <<data, le, y, X_columns, train_idx, test_idx, scaler, X_train,
                 X_test, clf, y_pred, report, tp, inputs, predicted_crop, remote,
                 error, prev_split, rng_drawn>>

NextInput == gvi_read

SpecInput == InitInput /\ [][NextInput]_vars

----------------------------------------------------------------------------
(* train_test_split on its own *)

InitSplit ==
  /\ pc = "split_alone"
  /\ data \in Datasets(MaxSplitRows)
  /\ gvi = NoCall
  /\ Fresh

\* One more call of train_test_split on the same dataset.
split_again ==
  /\ pc = "split_alone"
  /\ Len(prev_split) <= MaxResplits
  /\ LET r == train_test_split(Len(data), rng_drawn)
     IN /\ train_idx' = r.train
        /\ test_idx' = r.test
        /\ rng_drawn' = r.drawn
        /\ prev_split' = Append(prev_split, [raised |-> r.raised, train |-> r.train,
                                             test |-> r.test])
        /\ events' = Append(events, IF r.raised THEN "raise" ELSE "train_test_split")
  /\ UNCHANGED <<pc, data, le, y, X_columns, scaler, X_train, X_test, clf, y_pred,
                 report, tp, inputs, predicted_crop, remote, error, hist, gvi>>

NextSplit == split_again

SpecSplit == InitSplit /\ [][NextSplit]_vars

----------------------------------------------------------------------------
(* Properties *)

GateFailed == "print: Failed to retrieve data from Firebase."
Predicted == "print: The predicted crop is"
PutError == "print: Error sending data to Firebase"

\* C1 as stated: the get on '/Realtime' precedes every input read, and when
\* it returned an absent (None) or an empty result no input is read, no
\* user vector is predicted, put is never called, and the failure message is
\* printed.
C1_GateSkipsOnAbsentOrEmpty ==
  /\ Count("input") > 0 =>
       FirstIndex("get") > 0 /\ FirstIndex("get") < FirstIndex("input")
  /\ tp \in {PyNone, ""} =>
       /\ Count("input") = 0
       /\ Count("clf.predict([inputs])") = 0
       /\ Count("put") = 0
       /\ Count(GateFailed) = 1

\* C1 amended: the get on '/Realtime' precedes every input read, and when it
\* returned None no input is read, no user vector is predicted, put is never
\* called, and the failure message is printed.
C1_GateSkipsOnNone ==
  /\ Count("input") > 0 =>
       FirstIndex("get") > 0 /\ FirstIndex("get") < FirstIndex("input")
  /\ tp = PyNone =>
       /\ Count("input") = 0
       /\ Count("clf.predict([inputs])") = 0
       /\ Count("put") = 0
       /\ Count(GateFailed) = 1
       /\ pc = "done"

C1_Witness == tp = PyNone /\ pc = "done" /\ events[Len(events)] = GateFailed

\* C2: put is attempted only in the step that follows the printing of the
\* predicted crop, and once; whether it returns or raises, the function
\* returns normally with the prediction unchanged, a failure is printed, and
\* no further put follows.
C2_PutOnceAfterOutput ==
  [][/\ pc = "put" =>
          /\ Count(Predicted) = 1
          /\ Count("put") = 0
          /\ Count("put")' = 1
          /\ FirstIndex(Predicted)' < FirstIndex("put")'
          /\ pc' = "done"
          /\ error' = ""
          /\ predicted_crop' = predicted_crop
          /\ predicted_crop \in Range(le)
          /\ remote'[Len(remote')] = "put raised" => Count(PutError)' = 1
          /\ remote'[Len(remote')] = "put returned" => Count(PutError)' = 0
     /\ pc # "put" => Count("put")' = Count("put")]_vars

C2_Witness ==
  /\ pc = "done"
  /\ remote # <<>>
  /\ remote[Len(remote)] = "put raised"
  /\ Count(PutError) = 1
  /\ predicted_crop \in Range(le)

\* C3: after any RemoteStore call has raised, the get in main or the put, the
\* run has not crashed and the failure has been printed.
C3_RemoteFailureNeverCrashes ==
  \A i \in 1..Len(remote) :
    remote[i] \in {"get raised", "put raised"} =>
      /\ pc # "crashed"
      /\ error = ""
      /\ Count(GateFailed) + Count(PutError) >= 1

\* An entry that parses as numeric and lies in the closed range of the call.
ValidEntry(entry) ==
  LET v == ParseFloat(entry)
  IN /\ v.kind = "num"
     /\ CmpInt(v, gvi.min) >= 0
     /\ CmpInt(v, gvi.max) <= 0

\* C4: get_valid_input returns exactly at the first entry that parses as
\* numeric and lies in [min, max], endpoints included; the value returned is
\* that entry's parsed value; every earlier entry was answered by a message.
\* For (10, 90) and "abc", "150", "45" it returns 45.0 at the third entry.
C4_FirstValidEntryReturned ==
  /\ \A k \in 1..Len(hist) : ValidEntry(hist[k]) => gvi.returned /\ k = Len(hist)
  /\ gvi.returned =>
       /\ hist # <<>>
       /\ ValidEntry(hist[Len(hist)])
       /\ gvi.value = ParseFloat(hist[Len(hist)])
       /\ Rejections = Len(hist) - 1
  /\ (gvi.min = 10 /\ gvi.max = 90
      /\ hist = <<<<"a", "b", "c">>, <<"1", "5", "0">>, <<"4", "5">>>>) =>
       /\ gvi.returned
       /\ gvi.value = [kind |-> "num", neg |-> FALSE, num |-> <<45>>, t |-> 0]
       /\ events = <<"input", "print: Invalid input. Please enter a numeric value.",
                     "input", "print: Please enter a value between min_val and max_val.",
                     "input">>

C4_Witness ==
  /\ gvi.min = 10
  /\ gvi.max = 90
  /\ hist = <<<<"a", "b", "c">>, <<"1", "5", "0">>, <<"4", "5">>>>
  /\ gvi.returned
  /\ gvi.value.num = <<45>>

\* C5: get_valid_input never lets an invalid entry's error reach its caller;
\* after any number of invalid entries it is still asking, each answered by a
\* message; and it has returned if and only if a valid entry was supplied.
C5_RetriesUntilValid ==
  /\ pc \in {"gvi", "gvi_returned"}
  /\ pc = "gvi_returned" <=> \E k \in 1..Len(hist) : ValidEntry(hist[k])
  /\ pc = "gvi" => ~gvi.returned /\ Rejections = Len(hist)
  /\ Count("raise") = 0

C5_Witness ==
  /\ pc = "gvi"
  /\ Len(hist) >= 3
  /\ \E k \in 1..Len(hist) : ParseFloat(hist[k]).kind = "ValueError"
  /\ \E k \in 1..Len(hist) : ParseFloat(hist[k]).kind = "num"

\* round(x) of Python for x = num / den >= 0: to the nearest integer, a half
\* to the even one.
RoundHalfEven(num, den) ==
  LET q == num \div den
      twice == 2 * (num % den)
  IN IF twice < den THEN q
     ELSE IF twice > den THEN q + 1
     ELSE IF q % 2 = 0 THEN q ELSE q + 1

IsPartition(r, n) ==
  /\ Range(r.train) \cap Range(r.test) = {}
  /\ Range(r.train) \cup Range(r.test) = 0..(n - 1)
  /\ Len(r.train) + Len(r.test) = n

\* C6 as stated: every split made of a dataset of N rows is a partition of
\* the row indices with |TestSet| = round(0.3 * N), and equals the first
\* split made of that dataset.
C6_SplitRound ==
  \A i \in 1..Len(prev_split) :
    ~prev_split[i].raised =>
      /\ IsPartition(prev_split[i], Len(data))
      /\ Len(prev_split[i].test) = RoundHalfEven(3 * Len(data), 10)
      /\ prev_split[i] = prev_split[1]

\* C6 amended: the split raises exactly when N < 2; otherwise it is a
\* partition of the row indices with |TestSet| = ceil(0.3 * N), and equals
\* the first split made of that dataset.
C6_SplitCeil ==
  \A i \in 1..Len(prev_split) :
    /\ prev_split[i].raised <=> Len(data) < 2
    /\ ~prev_split[i].raised =>
         /\ IsPartition(prev_split[i], Len(data))
         /\ 10 * Len(prev_split[i].test) >= 3 * Len(data)
         /\ 10 * (Len(prev_split[i].test) - 1) < 3 * Len(data)
         /\ prev_split[i] = prev_split[1]

C6_Witness ==
  /\ Len(data) = 4
  /\ Len(prev_split) = 2
  /\ prev_split[2].test = <<1, 3>>
  /\ prev_split[2].train = <<0, 2>>

\* C7: the scaler statistics are computed once, from the rows of TrainSet
\* only, and in every later state, after X_test and after the user's vector
\* have been transformed, they are still exactly those.
C7_ScalerFitOnceOnTrain ==
  /\ Count("scaler.fit") <= 1
  /\ scaler.fitted <=> Count("scaler.fit") = 1
  /\ scaler.fitted =>
       /\ scaler.n = Len(train_idx)
       /\ \A j \in 1..4 :
            /\ scaler.sum[j] =
                 SumSeq([i \in 1..Len(train_idx) |-> data[train_idx[i] + 1].x[j]])
            /\ scaler.sumsq[j] =
                 SumSeq([i \in 1..Len(train_idx) |->
                           data[train_idx[i] + 1].x[j] * data[train_idx[i] + 1].x[j]])

C7_Witness ==
  /\ pc = "put"
  /\ scaler.fitted
  /\ Count("scaler.transform(X_test)") = 1
  /\ Count("scaler.transform([inputs])") = 1
  /\ \E i \in 1..Len(test_idx) : \E k \in 1..Len(train_idx) :
       data[test_idx[i] + 1].x # data[train_idx[k] + 1].x

\* C8: on an empty dataset, or one with fewer than 2 distinct labels, the
\* tree is never fitted, no report is printed and no RemoteStore call is made.
C8_DegenerateDatasetAborts ==
  (Len(data) = 0 \/ Cardinality({data[i].label : i \in 1..Len(data)}) < 2) =>
    /\ Count("clf.fit") = 0
    /\ ~report.printed
    /\ remote = <<>>

\* C9: once train_and_evaluate_model has predicted the test rows, a report
\* is printed that has, for every class code c of the encoder, a row labelled
\* with the name the encoder decodes c to.
C9_ReportLabelsEveryClass ==
  Count("clf.predict(X_test)") > 0 =>
    /\ report.printed
    /\ \A c \in 0..(Len(le) - 1) :
         \E k \in 1..Len(report.rows) :
           report.rows[k].code = c /\ report.rows[k].name = LabelEncoder_decode(le, c)

\* C10: the i-th value of the vector given to scaler.transform and
\* clf.predict measures the quantity of the i-th column the scaler and the
\* tree were fitted on.
C10_VectorMatchesColumns ==
  Count("scaler.transform([inputs])") > 0 =>
    /\ Len(inputs) = Len(X_columns)
    /\ \A i \in 1..Len(inputs) : inputs[i].quantity = X_columns[i]

============================================================================
